---- MODULE Spec2Model ----
(***************************************************************************)
(* A model of three numeric procedures of dynamax / ssm_jax:               *)
(*   - blocked_gibbs (ssm_jax/linear_gaussian_ssm/blocked_gibbs.py): the   *)
(*     sufficient statistics of a sampled trajectory and the scan over     *)
(*     Gibbs sweeps;                                                       *)
(*   - LinearRegressionHMM (dynamax/hmm/models/linreg_hmm.py): initialize, *)
(*     _compute_expected_suff_stats and _m_step_emissions;                 *)
(*   - to_unconstrained / from_unconstrained (dynamax/parameters.py).      *)
(* Arrays hold exact rationals <<numerator, denominator>>; a denominator   *)
(* of 0 stands for a non-finite float (inf or nan).  Array indices are     *)
(* 1-based here and 0-based in the source.                                 *)
(***************************************************************************)
EXTENDS Integers, Sequences, FiniteSets, TLC

VARIABLES
    pc,               \* position of the procedure under study
    emissions,        \* the emissions argument, shape (T, emission dimension)
    inputs,           \* blocked_gibbs: inputs after the None default
    states,           \* the trajectory handed to sufficient_stats_from_sample
    stats,            \* (init_stats, dynamics_stats, emission_stats)
    covariates,       \* LinearRegressionHMM: covariates, shape (T, covariate_dim)
    expected_states,  \* LinearRegressionHMM: E-step weights, shape (T, num_states)
    suff_stats,       \* the dict returned by _compute_expected_suff_stats
    hmm_params,       \* params["emissions"] after _m_step_emissions
    tree_params,      \* parameters.py: the params tree (constrained values)
    tree_props,       \* parameters.py: the matching tree of ParameterProperties
    unc_returned,     \* what to_unconstrained returned, one entry per result
    con_params,       \* what from_unconstrained returned
    init_args,        \* LinearRegressionHMM.initialize: the keyword arguments
    init_result,      \* what initialize returned or raised
    gibbs_args,       \* blocked_gibbs: key, sample_size and priors as passed
    priors,           \* (initial_prior, dynamics_prior, emission_prior) in use
    keys,             \* jr.split(key, sample_size)
    carry,            \* the carry of lax.scan: the running parameters
    sweep,            \* how many sweeps lax.scan has run
    samples_of_parameters,  \* the stacked first output of the scan
    log_probs,        \* the stacked second output of the scan
    trace,            \* per sweep: what entered it, what it called, what it drew
    key_uses          \* every use of a PRNG key, in order

statsVars == <<inputs, states, stats>>
emVars == <<covariates, expected_states, suff_stats, hmm_params>>
treeVars == <<tree_params, tree_props, unc_returned, con_params>>
initVars == <<init_args, init_result>>
gibbsVars == <<gibbs_args, priors, keys, carry, sweep, samples_of_parameters, log_probs,
               trace, key_uses>>
vars == <<pc, emissions, inputs, states, stats,
          covariates, expected_states, suff_stats, hmm_params,
          tree_params, tree_props, unc_returned, con_params,
          init_args, init_result,
          gibbs_args, priors, keys, carry, sweep, samples_of_parameters, log_probs,
          trace, key_uses>>

\* the variables of a procedure that is not the one under study
StatsIdle == inputs = <<>> /\ states = <<>> /\ stats = <<>>
EmIdle == covariates = <<>> /\ expected_states = <<>> /\ suff_stats = <<>> /\ hmm_params = <<>>
TreeIdle == tree_params = <<>> /\ tree_props = <<>> /\ unc_returned = <<>> /\ con_params = <<>>
InitIdle == init_args = <<>> /\ init_result = <<>>
GibbsIdle ==
    /\ gibbs_args = <<>> /\ priors = <<>> /\ keys = <<>> /\ carry = <<>> /\ sweep = 0
    /\ samples_of_parameters = <<>> /\ log_probs = <<>> /\ trace = <<>> /\ key_uses = <<>>

\* Python's None, as a record so that it compares with arrays
None == [none |-> TRUE]

(***************************************************************************)
(* Exact rational scalars                                                  *)
(***************************************************************************)
Abs(n) == IF n < 0 THEN -n ELSE n

RECURSIVE GCD(_, _)
GCD(a, b) == IF b = 0 THEN a ELSE GCD(b, a % b)

NaN == <<0, 0>>

IsFinite(a) == a[2] # 0

Rat(n, d) ==
    IF d = 0 THEN NaN
    ELSE LET g == GCD(Abs(n), Abs(d))
             s == IF d < 0 THEN -1 ELSE 1
         IN  <<(s * n) \div g, (s * d) \div g>>

Zero == <<0, 1>>
One == <<1, 1>>
FromInt(n) == <<n, 1>>

RAdd(a, b) ==
    IF a[2] = 0 \/ b[2] = 0 THEN NaN
    ELSE IF a[2] = 1 /\ b[2] = 1 THEN <<a[1] + b[1], 1>>
    ELSE Rat(a[1] * b[2] + b[1] * a[2], a[2] * b[2])

RNeg(a) == IF a[2] = 0 THEN NaN ELSE <<-a[1], a[2]>>

RSub(a, b) == RAdd(a, RNeg(b))

RMul(a, b) ==
    IF a[2] = 0 \/ b[2] = 0 THEN NaN
    ELSE IF a[2] = 1 /\ b[2] = 1 THEN <<a[1] * b[1], 1>>
    ELSE Rat(a[1] * b[1], a[2] * b[2])

\* a / b in floating point: dividing by zero gives inf or nan, never an error
RDiv(a, b) ==
    IF a[2] = 0 \/ b[2] = 0 \/ b[1] = 0 THEN NaN
    ELSE Rat(a[1] * b[2], a[2] * b[1])

RGeqZero(a) == IsFinite(a) /\ a[1] >= 0

\* the integer part of the square root of a natural number
ISqrt(n) == CHOOSE r \in 0..n : r * r <= n /\ (r + 1) * (r + 1) > n

\* the square root of a non-negative rational, exact on the squares the
\* model uses; non-finite for a negative argument
Sqrt(q) ==
    IF ~IsFinite(q) \/ q[1] < 0 THEN NaN
    ELSE Rat(ISqrt(q[1]), ISqrt(q[2]))

RECURSIVE RSumSeq(_)
RSumSeq(s) == IF s = <<>> THEN Zero ELSE RAdd(Head(s), RSumSeq(Tail(s)))

(***************************************************************************)
(* Arrays.  A 2-D array is [nr, nc, v] with v the sequence of its rows; a   *)
(* 1-D array is a sequence.  Shapes with a zero axis keep the other axis,  *)
(* as jnp arrays do.                                                       *)
(***************************************************************************)
MkMat(nr, nc, F(_, _)) ==
    [nr |-> nr, nc |-> nc, v |-> [i \in 1..nr |-> [j \in 1..nc |-> F(i, j)]]]

At(M, i, j) == M.v[i][j]

Zeros(nr, nc) == MkMat(nr, nc, LAMBDA i, j : Zero)

Eye(n) == MkMat(n, n, LAMBDA i, j : IF i = j THEN One ELSE Zero)

Ones(nr, nc) == MkMat(nr, nc, LAMBDA i, j : One)

\* M.T
Transpose(M) == MkMat(M.nc, M.nr, LAMBDA i, j : At(M, j, i))

\* A @ B
MatMul(A, B) ==
    MkMat(A.nr, B.nc,
          LAMBDA i, j : RSumSeq([k \in 1..A.nc |-> RMul(At(A, i, k), At(B, k, j))]))

MatAdd(A, B) == MkMat(A.nr, A.nc, LAMBDA i, j : RAdd(At(A, i, j), At(B, i, j)))

MatSub(A, B) == MkMat(A.nr, A.nc, LAMBDA i, j : RSub(At(A, i, j), At(B, i, j)))

\* c * M for a scalar c
Scale(c, M) == MkMat(M.nr, M.nc, LAMBDA i, j : RMul(c, At(M, i, j)))

\* jnp.hstack((A, B))
HStack(A, B) ==
    MkMat(A.nr, A.nc + B.nc,
          LAMBDA i, j : IF j <= A.nc THEN At(A, i, j) ELSE At(B, i, j - A.nc))

\* jnp.vstack([A, B]), jnp.block([[A], [B]])
VStack(A, B) ==
    MkMat(A.nr + B.nr, A.nc,
          LAMBDA i, j : IF i <= A.nr THEN At(A, i, j) ELSE At(B, i - A.nr, j))

\* jnp.block([[A, B], [C, D]])
Block(A, B, C, D) == VStack(HStack(A, B), HStack(C, D))

\* M[lo-1 : hi] in the source's 0-based slices: rows lo..hi, 1-based
Rows(M, lo, hi) ==
    LET n == IF hi >= lo THEN hi - lo + 1 ELSE 0
    IN  MkMat(n, M.nc, LAMBDA i, j : At(M, lo + i - 1, j))

\* M[:, lo-1 : hi]
Cols(M, lo, hi) ==
    LET n == IF hi >= lo THEN hi - lo + 1 ELSE 0
    IN  MkMat(M.nr, n, LAMBDA i, j : At(M, i, lo + j - 1))

\* M[i-1], a 1-D array
Row(M, i) == [j \in 1..M.nc |-> At(M, i, j)]

\* M[:, j-1], a 1-D array
Col(M, j) == [i \in 1..M.nr |-> At(M, i, j)]

\* jnp.outer(a, b)
Outer(a, b) == MkMat(Len(a), Len(b), LAMBDA i, j : RMul(a[i], b[j]))

\* every array of a shape with entries in S
AllMats(nr, nc, S) ==
    {[nr |-> nr, nc |-> nc, v |-> f] : f \in [1..nr -> [1..nc -> S]]}

(***************************************************************************)
(* blocked_gibbs: shapes and the sufficient statistics of a trajectory     *)
(***************************************************************************)
D_hid == 2
D_obs == 1
InputDim == 1
MaxT == 3

Vals == {Zero, One}

\* lines 32-33: a missing inputs array becomes one with no columns
default_inputs(inputs_arg, T) == IF inputs_arg = None THEN Zeros(T, 0) ELSE inputs_arg

num_timesteps == emissions.nr
D_in == inputs.nc

\* line 97: states[:-1] and states[1:]
xp(x) == Rows(x, 1, x.nr - 1)
xn(x) == Rows(x, 2, x.nr)

\* a slip in line 98: the inputs are shifted like the successor states
up_shifted == Rows(inputs, 2, inputs.nr)

\* line 98: inputs[:-1]
up == Rows(inputs, 1, inputs.nr - 1)

\* line 101
init_stats(x) == <<Row(x, 1), Outer(Row(x, 1), Row(x, 1)), 1>>

\* a slip in line 110: every timestep is counted as a transition
dynamics_count_all == num_timesteps

\* line 110: the number of transitions
dynamics_count == num_timesteps - 1

\* lines 103-110, with zp[t] = [x[t], u[t]] and xn[t] = x[t+1] for t = 0..T-2
dynamics_stats(x) ==
    LET sum_zpzpT == Block(MatMul(Transpose(xp(x)), xp(x)), MatMul(Transpose(xp(x)), up),
                           MatMul(Transpose(up), xp(x)),    MatMul(Transpose(up), up))
        sum_zpxnT == VStack(MatMul(Transpose(xp(x)), xn(x)),
                            MatMul(Transpose(up), xn(x)))
        sum_xnxnT == MatMul(Transpose(xn(x)), xn(x))
    IN  <<sum_zpzpT, sum_zpxnT, sum_xnxnT, dynamics_count>>

\* lines 112-119, with z[t] = [x[t], u[t]] for t = 0..T-1
emission_stats(x) ==
    LET u == inputs
        y == emissions
        sum_zzT == Block(MatMul(Transpose(x), x), MatMul(Transpose(x), u),
                         MatMul(Transpose(u), x), MatMul(Transpose(u), u))
        sum_zyT == VStack(MatMul(Transpose(x), y), MatMul(Transpose(u), y))
        sum_yyT == MatMul(Transpose(y), y)
    IN  <<sum_zzT, sum_zyT, sum_yyT, num_timesteps>>

\* lines 90-121
sufficient_stats_from_sample(x) == <<init_stats(x), dynamics_stats(x), emission_stats(x)>>

\* The call of blocked_gibbs up to line 34: the arguments are bound and the
\* inputs default is applied; no trajectory has been sampled yet.
StatsInit ==
    /\ pc = "sample_states"
    /\ \E T \in 1..MaxT :
         /\ emissions \in AllMats(T, D_obs, Vals)
         /\ \E inputs_arg \in {None} \cup AllMats(T, InputDim, Vals) :
              inputs = default_inputs(inputs_arg, T)
    /\ states = None
    /\ stats = <<>>
    /\ EmIdle
    /\ TreeIdle
    /\ InitIdle
    /\ GibbsIdle

\* lines 156-159 of one_sample: a trajectory of num_timesteps states is
\* sampled and reduced to its sufficient statistics.
SufficientStats ==
    /\ pc = "sample_states"
    /\ \E x \in AllMats(num_timesteps, D_hid, Vals) :
         /\ states' = x
         /\ stats' = sufficient_stats_from_sample(x)
    /\ pc' = "stats_done"
    /\ UNCHANGED <<emissions, inputs>>
    /\ UNCHANGED <<emVars, treeVars, initVars, gibbsVars>>

StatsNext == SufficientStats

SpecStats == StatsInit /\ [][StatsNext]_vars

(***************************************************************************)
(* LinearRegressionHMM: the EM step for the emission parameters            *)
(***************************************************************************)
num_states == 2
covariate_dim == 1
emission_dim == 1
MaxSteps == 3

\* M with row r and column c removed
Minor(M, r, c) ==
    MkMat(M.nr - 1, M.nc - 1,
          LAMBDA i, j : At(M, IF i < r THEN i ELSE i + 1, IF j < c THEN j ELSE j + 1))

\* the determinant, by expansion along the first row
RECURSIVE Det(_)
Det(M) ==
    IF M.nr = 0 THEN One
    ELSE RSumSeq([j \in 1..M.nc |->
                     RMul(IF j % 2 = 1 THEN At(M, 1, j) ELSE RNeg(At(M, 1, j)),
                          Det(Minor(M, 1, j)))])

\* A with column c replaced by column k of B
ReplaceCol(A, c, B, k) ==
    MkMat(A.nr, A.nc, LAMBDA i, j : IF j = c THEN At(B, i, k) ELSE At(A, i, j))

\* jnp.linalg.solve(A, B): the X with A @ X = B.  A singular A makes the
\* LU factorisation divide by a zero pivot and the result is non-finite.
Solve(A, B) ==
    LET d == Det(A)
    IN  MkMat(A.nc, B.nc,
              LAMBDA i, j : IF d = Zero THEN NaN
                            ELSE RDiv(Det(ReplaceCol(A, i, B, j)), d))

\* jnp.einsum("tk->k", E)
einsum_tk_k(E) == [k \in 1..E.nc |-> RSumSeq([t \in 1..E.nr |-> At(E, t, k)])]

\* jnp.einsum("tk,ti->ki", E, X): one 1-D array per state k
einsum_tk_ti_ki(E, X) ==
    [k \in 1..E.nc |->
        [i \in 1..X.nc |-> RSumSeq([t \in 1..E.nr |-> RMul(At(E, t, k), At(X, t, i))])]]

\* jnp.einsum("tk,ti,tj->kij", E, X, Y): one 2-D array per state k
einsum_tk_ti_tj_kij(E, X, Y) ==
    [k \in 1..E.nc |->
        MkMat(X.nc, Y.nc,
              LAMBDA i, j : RSumSeq([t \in 1..E.nr |->
                                RMul(At(E, t, k), RMul(At(X, t, i), At(Y, t, j)))]))]

\* a slip in line 133: the covariates are summed without the state weights
compute_suff_stats_unweighted_x(ems, E, X) ==
    [sum_w   |-> einsum_tk_k(E),
     sum_x   |-> einsum_tk_ti_ki(Ones(E.nr, E.nc), X),
     sum_y   |-> einsum_tk_ti_ki(E, ems),
     sum_xxT |-> einsum_tk_ti_tj_kij(E, X, X),
     sum_xyT |-> einsum_tk_ti_tj_kij(E, X, ems),
     sum_yyT |-> einsum_tk_ti_tj_kij(E, ems, ems)]

\* lines 131-138
compute_expected_suff_stats(ems, E, X) ==
    [sum_w   |-> einsum_tk_k(E),
     sum_x   |-> einsum_tk_ti_ki(E, X),
     sum_y   |-> einsum_tk_ti_ki(E, ems),
     sum_xxT |-> einsum_tk_ti_tj_kij(E, X, X),
     sum_xyT |-> einsum_tk_ti_tj_kij(E, X, ems),
     sum_yyT |-> einsum_tk_ti_tj_kij(E, ems, ems)]

\* jnp.expand_dims(a, 1), jnp.expand_dims(a, 0) of a 1-D array and
\* jnp.expand_dims(w, (0, 1)) of a scalar
AsColumn(a) == MkMat(Len(a), 1, LAMBDA i, j : a[i])
AsRow(a) == MkMat(1, Len(a), LAMBDA i, j : a[j])
AsMat(w) == MkMat(1, 1, LAMBDA i, j : w)

\* lines 141-161, on the statistics of one state
single_m_step(st) ==
    LET sum_x1x1T == Block(st.sum_xxT,      AsColumn(st.sum_x),
                           AsRow(st.sum_x), AsMat(st.sum_w))
        sum_x1yT  == VStack(st.sum_xyT, AsRow(st.sum_y))
        Ab        == Transpose(Solve(sum_x1x1T, sum_x1yT))
        Sigma0    == Scale(RDiv(One, st.sum_w), MatSub(st.sum_yyT, MatMul(Ab, sum_x1yT)))
        Sigma     == Scale(Rat(1, 2), MatAdd(Sigma0, Transpose(Sigma0)))
    IN  <<Cols(Ab, 1, Ab.nc - 1), Col(Ab, Ab.nc), Sigma>>

\* lines 163-167: vmap of _single_m_step over the leading (state) axis
m_step_emissions(es) ==
    LET out == [k \in 1..Len(es.sum_w) |->
                   single_m_step([sum_w   |-> es.sum_w[k],
                                  sum_x   |-> es.sum_x[k],
                                  sum_y   |-> es.sum_y[k],
                                  sum_xxT |-> es.sum_xxT[k],
                                  sum_xyT |-> es.sum_xyT[k],
                                  sum_yyT |-> es.sum_yyT[k]])]
    IN  [weights |-> [k \in 1..Len(out) |-> out[k][1]],
         biases  |-> [k \in 1..Len(out) |-> out[k][2]],
         covs    |-> [k \in 1..Len(out) |-> out[k][3]]]

XVals == {Zero, One}
YVals == {Zero, One}

\* the rows the E-step may hand over, for two states: a hard assignment to
\* either state or equal weights
OneHot(k) == [j \in 1..num_states |-> IF j = k THEN One ELSE Zero]
WeightRows == {OneHot(k) : k \in 1..num_states}
                  \cup {[j \in 1..num_states |-> Rat(1, num_states)]}

\* The E-step has run: emissions, covariates and posterior state weights of
\* one batch are at hand.
EmInit ==
    /\ pc = "e_step_done"
    /\ \E T \in 1..MaxSteps :
         /\ emissions \in AllMats(T, emission_dim, YVals)
         /\ covariates \in AllMats(T, covariate_dim, XVals)
         /\ \E w \in [1..T -> WeightRows] :
              expected_states = [nr |-> T, nc |-> num_states, v |-> w]
    /\ suff_stats = <<>>
    /\ hmm_params = <<>>
    /\ StatsIdle
    /\ TreeIdle
    /\ InitIdle
    /\ GibbsIdle

\* lines 131-138
ComputeExpectedSuffStats ==
    /\ pc = "e_step_done"
    /\ suff_stats' = compute_expected_suff_stats(emissions, expected_states, covariates)
    /\ pc' = "stats_ready"
    /\ UNCHANGED <<emissions, covariates, expected_states, hmm_params>>
    /\ UNCHANGED <<statsVars, treeVars, initVars, gibbsVars>>

\* lines 140-167
MStepEmissions ==
    /\ pc = "stats_ready"
    /\ hmm_params' = m_step_emissions(suff_stats)
    /\ pc' = "m_step_done"
    /\ UNCHANGED <<emissions, covariates, expected_states, suff_stats>>
    /\ UNCHANGED <<statsVars, treeVars, initVars, gibbsVars>>

EmNext == ComputeExpectedSuffStats \/ MStepEmissions

SpecEM == EmInit /\ [][EmNext]_vars


(***************************************************************************)
(* parameters.py: to_unconstrained and from_unconstrained                  *)
(***************************************************************************)
MaxUnc == 1

\* the unconstrained reals the model draws from
UncVals == {FromInt(n) : n \in (0 - MaxUnc)..MaxUnc}

\* 2^n for an integer n, the model's stand-in for exp(n)
RECURSIVE Pow2(_)
Pow2(n) == IF n = 0 THEN One
           ELSE IF n > 0 THEN RMul(FromInt(2), Pow2(n - 1))
           ELSE RDiv(Pow2(n + 1), FromInt(2))

\* the integer part of log2 of a positive integer
RECURSIVE ILog2(_)
ILog2(n) == IF n <= 1 THEN 0 ELSE 1 + ILog2(n \div 2)

\* log2 of a positive rational; non-finite outside the positive reals
Log2(q) ==
    IF ~IsFinite(q) \/ q[1] <= 0 THEN NaN
    ELSE FromInt(ILog2(q[1]) - ILog2(q[2]))

\* the constrainers a ParameterProperties may hold: none, tfb.Exp(), and
\* tfb.Invert(PSDToRealBijector) as used for the emission covariances
ExpBijector == [bijector |-> "Exp"]
RealToPSD == [bijector |-> "Invert(PSDToRealBijector)"]
Constrainers == {None, ExpBijector, RealToPSD}

\* constrainer(u): unconstrained to constrained.  For a 1x1 covariance the
\* PSD bijector fills the Cholesky factor, exponentiates its diagonal and
\* forms L L^T.
Forward(c, u) ==
    IF c = ExpBijector THEN (IF IsFinite(u) THEN Pow2(u[1]) ELSE NaN)
    ELSE IF IsFinite(u) THEN RMul(Pow2(u[1]), Pow2(u[1])) ELSE NaN

\* constrainer.inverse(v): constrained to unconstrained
Inverse(c, v) ==
    IF c = ExpBijector THEN Log2(v)
    ELSE Log2(Sqrt(v))

\* ParameterProperties(trainable, constrainer), lines 8-30
ParameterProperties(trainable, constrainer) ==
    [trainable |-> trainable, constrainer |-> constrainer]

\* tree_map(f, a, b, is_leaf=...): f on the matching leaves of two trees of
\* the same structure; the result has the structure of the first tree
tree_map(f(_, _), a, b) ==
    [g \in DOMAIN a |-> [n \in DOMAIN a[g] |-> f(a[g][n], b[g][n])]]

\* lines 53-54
to_unc(value, prop) ==
    IF prop.constrainer # None THEN Inverse(prop.constrainer, value) ELSE value

\* lines 38-56: one result, the mapped tree
to_unconstrained(params, props) == <<tree_map(to_unc, params, props)>>

\* lax.stop_gradient(value): the value itself
stop_gradient(value) == value

\* a slip in lines 71-72: only trainable leaves are mapped back
from_unc_trainable_only(unc_value, prop) ==
    IF prop.trainable
    THEN (IF prop.constrainer # None THEN Forward(prop.constrainer, unc_value)
          ELSE unc_value)
    ELSE stop_gradient(unc_value)

\* lines 70-73
from_unc(unc_value, prop) ==
    LET value == IF prop.constrainer # None THEN Forward(prop.constrainer, unc_value)
                 ELSE unc_value
    IN  IF ~prop.trainable THEN stop_gradient(value) ELSE value

\* lines 59-76
from_unconstrained(unc_params, props) == tree_map(from_unc, unc_params, props)

\* the structure of the trees: groups of named leaves, as in the nested
\* dictionaries that initialize returns
MkTree(probs, weights, covs) ==
    [initial |-> [probs |-> probs], emissions |-> [weights |-> weights, covs |-> covs]]

\* the constrained values a leaf with constrainer c may hold
ValidValues(c) == IF c = None THEN UncVals ELSE {Forward(c, u) : u \in UncVals}

AllProperties == {ParameterProperties(tr, c) : tr \in BOOLEAN, c \in Constrainers}

PropsTrees == {MkTree(a, b, c) : a \in AllProperties, b \in AllProperties, c \in AllProperties}

ParamsTrees(props) ==
    {MkTree(a, b, c) : a \in ValidValues(props.initial.probs.constrainer),
                       b \in ValidValues(props.emissions.weights.constrainer),
                       c \in ValidValues(props.emissions.covs.constrainer)}

\* a params tree and a matching props tree are at hand
TreeInit ==
    /\ pc = "constrained"
    /\ tree_props \in PropsTrees
    /\ tree_params \in ParamsTrees(tree_props)
    /\ unc_returned = <<>>
    /\ con_params = <<>>
    /\ emissions = <<>>
    /\ StatsIdle
    /\ EmIdle
    /\ InitIdle
    /\ GibbsIdle

\* lines 38-56
ToUnconstrained ==
    /\ pc = "constrained"
    /\ unc_returned' = to_unconstrained(tree_params, tree_props)
    /\ pc' = "unconstrained"
    /\ UNCHANGED <<tree_params, tree_props, con_params>>
    /\ UNCHANGED <<emissions, statsVars, emVars, initVars, gibbsVars>>

\* lines 59-76, on the result of to_unconstrained
FromUnconstrained ==
    /\ pc = "unconstrained"
    /\ con_params' = from_unconstrained(unc_returned[1], tree_props)
    /\ pc' = "round_trip_done"
    /\ UNCHANGED <<tree_params, tree_props, unc_returned>>
    /\ UNCHANGED <<emissions, statsVars, emVars, initVars, gibbsVars>>

TreeNext == ToUnconstrained \/ FromUnconstrained

SpecTree == TreeInit /\ [][TreeNext]_vars


(***************************************************************************)
(* LinearRegressionHMM.initialize                                          *)
(***************************************************************************)
\* an array of shape (num_states, r, c): one 2-D array per state
Array3(ms) == [nk |-> Len(ms), m |-> ms]

\* jnp.tile(M[None, :, :], (n, 1, 1)) and jnp.tile(M, (n, 1, 1))
Tile(M, n) == Array3([k \in 1..n |-> M])

\* c * A for an array of shape (num_states, r, c)
Scale3(c, A) == Array3([k \in 1..A.nk |-> Scale(c, A.m[k])])

\* jr.PRNGKey(0), the default of the key argument
PRNGKey0 == [key |-> <<0>>]

\* str.lower on the method names the model passes
lower(method) == IF method = "KMeans" THEN "kmeans"
                 ELSE IF method = "Prior" THEN "prior"
                 ELSE method

Raised(exception) == [raised |-> exception]

\* the base class: initial probabilities and transition matrix, the given
\* array or a draw from the Dirichlet prior
base_initialize(key, method, initial_probs, transition_matrix) ==
    [params |->
        [initial |-> [probs |-> IF initial_probs # None THEN initial_probs
                                ELSE [sampled |-> "Dirichlet"]],
         transitions |-> [transition_matrix |->
                              IF transition_matrix # None THEN transition_matrix
                              ELSE [sampled |-> "Dirichlet"]]],
     props |->
        [initial |-> [probs |-> ParameterProperties(TRUE, [bijector |-> "SoftmaxCentered"])],
         transitions |-> [transition_matrix |->
                              ParameterProperties(TRUE, [bijector |-> "SoftmaxCentered"])]]]

\* emissions.reshape(-1, emission_dim) of a batch of sequences: their rows
\* one after the other
RECURSIVE reshape_rows(_)
reshape_rows(batch) ==
    IF batch = <<>> THEN <<>> ELSE Head(batch).v \o reshape_rows(Tail(batch))

reshape(ems) ==
    [nr |-> Len(reshape_rows(ems.batch)), nc |-> emission_dim, v |-> reshape_rows(ems.batch)]

\* the mean of the rows of X whose label is k
ClusterMean(X, label, k) ==
    LET members == {t \in 1..X.nr : label[t] = k}
    IN  [i \in 1..X.nc |->
            RDiv(RSumSeq([t \in 1..X.nr |-> IF t \in members THEN At(X, t, i) ELSE Zero]),
                 FromInt(Cardinality(members)))]

\* KMeans(n_clusters).fit(X).cluster_centers_: the cluster means of some
\* labelling of the rows that leaves no cluster empty
KMeansCenters(n_clusters, X) ==
    {[nr |-> n_clusters, nc |-> X.nc, v |-> [k \in 1..n_clusters |-> ClusterMean(X, label, k)]] :
        label \in {f \in [1..X.nr -> 1..n_clusters] :
                      \A k \in 1..n_clusters : \E t \in 1..X.nr : f[t] = k}}

\* a slip in line 101: the method's value always wins
default_ignoring_user(x, x0) == x0

\* line 101
default(x, x0) == IF x # None THEN x ELSE x0

\* lines 102-108
with_emissions(base, a, w0, b0, covs0) ==
    [params |->
        [initial |-> base.params.initial,
         transitions |-> base.params.transitions,
         emissions |-> [weights |-> default(a.emission_weights, w0),
                        biases  |-> default(a.emission_biases, b0),
                        covs    |-> default(a.emission_covariances, covs0)]],
     props |->
        [initial |-> base.props.initial,
         transitions |-> base.props.transitions,
         emissions |-> [weights |-> ParameterProperties(TRUE, None),
                        biases  |-> ParameterProperties(TRUE, None),
                        covs    |-> ParameterProperties(TRUE, RealToPSD)]]]

\* lines 76-108.  normal_w and normal_b are what jr.normal draws for the
\* weights and biases, centers what KMeans finds.
initialize(a, normal_w, normal_b, centers) ==
    IF a.key = None THEN Raised("TypeError")                 \* jr.split(None), line 77
    ELSE
    LET base == base_initialize(a.key, a.method, a.initial_probs, a.transition_matrix)
    IN  IF lower(a.method) = "kmeans" THEN
            IF a.emissions = None THEN Raised("AssertionError")           \* line 83
            ELSE IF reshape(a.emissions).nr < num_states
                 THEN Raised("ValueError")                   \* KMeans.fit, line 85
            ELSE with_emissions(base, a,
                                Tile(Zeros(emission_dim, covariate_dim), num_states),
                                centers,
                                Tile(Eye(emission_dim), num_states))
        ELSE IF lower(a.method) = "prior" THEN
            with_emissions(base, a,
                           Scale3(Rat(1, 100), normal_w),
                           normal_b,
                           Tile(Eye(emission_dim), num_states))
        ELSE Raised("Exception")                             \* line 98

\* the values the model lets jr.normal return, per entry
NormalVals == {FromInt(-1), One}
NormalWeights ==
    {Array3(ms) : ms \in [1..num_states -> AllMats(emission_dim, covariate_dim, NormalVals)]}
NormalBiases == AllMats(num_states, emission_dim, NormalVals)

\* arrays a caller may pass
UserVals == {FromInt(2), FromInt(3)}
UserWeights == {Tile(Scale(c, Ones(emission_dim, covariate_dim)), num_states) : c \in UserVals}
UserBiases == {Scale(c, Ones(num_states, emission_dim)) : c \in UserVals}
UserCovariances == {Tile(Scale(c, Eye(emission_dim)), num_states) : c \in UserVals}
UserEmissions ==
    { [batch |-> <<[nr |-> 1, nc |-> emission_dim, v |-> <<[i \in 1..emission_dim |-> One]>>]>>],
      [batch |-> <<[nr |-> 1, nc |-> emission_dim, v |-> <<[i \in 1..emission_dim |-> Zero]>>],
                   [nr |-> 2, nc |-> emission_dim,
                    v |-> <<[i \in 1..emission_dim |-> FromInt(2)],
                            [i \in 1..emission_dim |-> FromInt(4)]>>]>>] }
Methods == {"prior", "kmeans", "KMeans", "random"}

\* what KMeans may return for the arguments, when it is reached at all
CentersFor(a) ==
    IF a.emissions # None /\ a.key # None /\ lower(a.method) = "kmeans"
    THEN (IF reshape(a.emissions).nr >= num_states
          THEN KMeansCenters(num_states, reshape(a.emissions)) ELSE {None})
    ELSE {None}

\* initialize is about to be called with some keyword arguments
InitializeInit ==
    /\ pc = "initialize_called"
    /\ init_args \in
         [key : {None, PRNGKey0},
          method : Methods,
          initial_probs : {None, [probs |-> "given"]},
          transition_matrix : {None, [transition_matrix |-> "given"]},
          emission_weights : {None} \cup UserWeights,
          emission_biases : {None} \cup UserBiases,
          emission_covariances : {None} \cup UserCovariances,
          emissions : {None} \cup UserEmissions]
    /\ init_result = <<>>
    /\ emissions = <<>>
    /\ StatsIdle
    /\ EmIdle
    /\ TreeIdle
    /\ GibbsIdle

\* lines 76-108
Initialize ==
    /\ pc = "initialize_called"
    /\ \E normal_w \in NormalWeights, normal_b \in NormalBiases,
          centers \in CentersFor(init_args) :
         init_result' = initialize(init_args, normal_w, normal_b, centers)
    /\ pc' = "initialize_done"
    /\ UNCHANGED <<init_args, emissions, statsVars, emVars, treeVars, gibbsVars>>

InitializeNext == Initialize

SpecInitialize == InitializeInit /\ [][InitializeNext]_vars


(***************************************************************************)
(* blocked_gibbs: priors, sweep-zero parameters and the scan over sweeps   *)
(*                                                                         *)
(* Log-densities and the marginal log-likelihood are kept as terms: the    *)
(* model records which density was evaluated at which argument.            *)
(***************************************************************************)
MaxSampleSize == 3

\* jr.split(key, n): n fresh keys, told apart by their position
split(key, n) == [i \in 1..n |-> [key |-> Append(key.key, i - 1)]]

\* one use of a key by a draw or a split
Use(key, op) == [key |-> key, op |-> op]

\* NIW(loc, mean_concentration, df, scale) and MNIW(loc, col_precision, df, scale)
NIW(loc, mean_concentration, df, scale) ==
    [dist |-> "NIW", loc |-> loc, mean_concentration |-> mean_concentration,
     df |-> df, scale |-> scale]
MNIW(loc, col_precision, df, scale) ==
    [dist |-> "MNIW", loc |-> loc, col_precision |-> col_precision,
     df |-> df, scale |-> scale]

\* NIW.mode() and MNIW.mode(): (covariance, location)
NIWMode(prior) ==
    <<Scale(RDiv(One, FromInt(prior.df + Len(prior.loc) + 2)), prior.scale), prior.loc>>
MNIWMode(prior) ==
    <<Scale(RDiv(One, FromInt(prior.df + prior.scale.nr + 1)), prior.scale), prior.loc>>

\* dist.log_prob(x), a term
LogProb(dist, x) == [log_prob_under |-> dist, at |-> x]

\* the sum of two log-probabilities, a term
Plus(a, b) == [plus |-> <<a, b>>]

\* the mean of a 1-D array
Mean(a) == RDiv(RSumSeq(a), FromInt(Len(a)))

\* jnp.std(M, axis=0)[j-1]
ColStd(M, j) ==
    LET mu == Mean(Col(M, j))
    IN  Sqrt(Mean([t \in 1..M.nr |-> RMul(RSub(At(M, t, j), mu), RSub(At(M, t, j), mu))]))

\* line 37
scale_obs == Mean([j \in 1..emissions.nc |-> ColStd(emissions, j)])

\* lines 43-47
default_initial_prior ==
    NIW([i \in 1..D_hid |-> RMul(One, Mean(Row(emissions, 1)))],
        One, D_hid, Scale(RMul(FromInt(5), scale_obs), Eye(D_hid)))

\* lines 49-54; uniform is what jr.uniform(key, [D_hid, D_in]) returned
default_dynamics_prior(uniform) ==
    LET F_init == Scale(Rat(1, D_hid), Ones(D_hid, D_hid))
        B_init == Scale(Rat(1, 10), uniform)
    IN  MNIW(HStack(F_init, B_init), Eye(D_hid + D_in), D_hid, Eye(D_hid))

\* lines 56-61; uniform is what jr.uniform(key, [D_obs, D_in]) returned
default_emission_prior(uniform) ==
    LET H_init == Scale(Rat(1, D_hid), Ones(D_obs, D_hid))
        D_init == Scale(Rat(1, 10), uniform)
    IN  MNIW(HStack(H_init, D_init), Eye(D_hid + D_in), D_obs, Eye(D_obs))

\* lines 38-61: the priors in use, the given ones or the defaults
set_priors(priors_arg, uniform_B, uniform_D) ==
    LET given == IF priors_arg = None
                 THEN [initial |-> None, dynamics |-> None, emission |-> None]
                 ELSE priors_arg
    IN  [initial  |-> IF given.initial = None THEN default_initial_prior
                      ELSE given.initial,
         dynamics |-> IF given.dynamics = None THEN default_dynamics_prior(uniform_B)
                      ELSE given.dynamics,
         emission |-> IF given.emission = None THEN default_emission_prior(uniform_D)
                      ELSE given.emission]

\* lines 48-57 and 190: the uses of the key argument before the scan
setup_key_uses(key, priors_arg) ==
    (IF priors_arg = None \/ priors_arg.dynamics = None
     THEN <<Use(key, "uniform")>> ELSE <<>>)
    \o (IF priors_arg = None \/ priors_arg.emission = None
        THEN <<Use(key, "uniform")>> ELSE <<>>)
    \o <<Use(key, "split")>>

LGSSMParams(m, S, F, B, Q, H, D, R) ==
    [initial_mean |-> m, initial_covariance |-> S,
     dynamics_matrix |-> F, dynamics_input_weights |-> B, dynamics_covariance |-> Q,
     emission_matrix |-> H, emission_input_weights |-> D, emission_covariance |-> R]

\* a slip in lines 83-88: the emission prior is left out of the sum
log_prior_prob_without_emission(params) ==
    LET lp_init == LogProb(priors.initial,
                           <<params.initial_covariance, params.initial_mean>>)
        lp_dyn  == LogProb(priors.dynamics,
                           <<params.dynamics_covariance,
                             HStack(params.dynamics_matrix, params.dynamics_input_weights)>>)
    IN  Plus(lp_init, lp_dyn)

\* lines 63-88
log_prior_prob(params) ==
    LET lp_init == LogProb(priors.initial,
                           <<params.initial_covariance, params.initial_mean>>)
        lp_dyn  == LogProb(priors.dynamics,
                           <<params.dynamics_covariance,
                             HStack(params.dynamics_matrix, params.dynamics_input_weights)>>)
        lp_ems  == LogProb(priors.emission,
                           <<params.emission_covariance,
                             HStack(params.emission_matrix, params.emission_input_weights)>>)
    IN  Plus(Plus(lp_init, lp_dyn), lp_ems)

\* lgssm_posterior_sample(rng, params, emissions, inputs): the marginal
\* log-likelihood of the emissions under params, and the trajectory x that
\* was drawn
MarginalLogLik(params) == [marginal_loglik_under |-> params]
lgssm_posterior_sample(rng, params, x) == <<MarginalLogLik(params), x>>

\* lines 123-149; draws holds what the three posteriors returned for
\* sample(seed=...): (S, m), (Q, FB) and (R, HD)
lgssm_params_sample(rng, st, draws) ==
    LET S  == draws[1][1]
        m  == draws[1][2]
        Q  == draws[2][1]
        FB == draws[2][2]
        F  == Cols(FB, 1, D_hid)
        B  == Cols(FB, D_hid + 1, FB.nc)
        R  == draws[3][1]
        HD == draws[3][2]
        H  == Cols(HD, 1, D_hid)
        D  == Cols(HD, D_hid + 1, HD.nc)
    IN  LGSSMParams(m, S, F, B, Q, H, D, R)

\* the keys lgssm_params_sample uses: one split into three, a key per draw
params_sample_key_uses(rng) ==
    <<Use(rng, "split"),
      Use(split(rng, 3)[1], "sample"),
      Use(split(rng, 3)[2], "sample"),
      Use(split(rng, 3)[3], "sample")>>

\* a slip in line 167: the new parameters are recorded
one_sample_return_new(params, params_new, lp) == <<params_new, <<params_new, lp>>>>

\* a slip in line 167: the carry is not replaced
one_sample_return_stale(params, params_new, lp) == <<params, <<params, lp>>>>

\* line 167: (carry, (recorded parameters, recorded log-probability))
one_sample_return(params, params_new, lp) == <<params_new, <<params, lp>>>>

\* lines 151-167.  x is the trajectory lgssm_posterior_sample drew and draws
\* what the posteriors returned.  calls records what the sweep was handed,
\* what it passed on and what it drew.
one_sample(params, rng, x, draws) ==
    LET rngs       == split(rng, 2)
        l_prior    == log_prior_prob(params)
        post       == lgssm_posterior_sample(rngs[1], params, x)
        ll         == post[1]
        st         == sufficient_stats_from_sample(post[2])
        params_new == lgssm_params_sample(rngs[2], st, draws)
        lp         == Plus(l_prior, ll)
    IN  [ret   |-> one_sample_return(params, params_new, lp),
         calls |-> [entered |-> params,
                    l_prior_of |-> params,
                    sampled_under |-> params,
                    ll |-> ll,
                    drawn |-> params_new],
         stats |-> st,
         uses  |-> <<Use(rng, "split"), Use(rngs[1], "lgssm_posterior_sample")>>
                       \o params_sample_key_uses(rngs[2])]

\* lines 169-187: the modes of the priors
params_0 ==
    LET S_0  == NIWMode(priors.initial)[1]
        m_0  == NIWMode(priors.initial)[2]
        Q_0  == MNIWMode(priors.dynamics)[1]
        FB_0 == MNIWMode(priors.dynamics)[2]
        F_0  == Cols(FB_0, 1, D_hid)
        B_0  == Cols(FB_0, D_hid + 1, FB_0.nc)
        R_0  == MNIWMode(priors.emission)[1]
        HD_0 == MNIWMode(priors.emission)[2]
        H_0  == Cols(HD_0, 1, D_hid)
        D_0  == Cols(HD_0, D_hid + 1, HD_0.nc)
    IN  LGSSMParams(m_0, S_0, F_0, B_0, Q_0, H_0, D_0, R_0)

\* what the model lets the random draws return
UniformVals == {Zero, Rat(1, 2)}
DrawVals == {1, 2}
NIWDraw(c) == <<Scale(FromInt(c), Eye(D_hid)), [i \in 1..D_hid |-> FromInt(c)]>>
MNIWDraw(c, nr, nc) ==
    <<Scale(FromInt(c), Eye(nr)), MkMat(nr, nc, LAMBDA i, j : FromInt(c + j))>>
PosteriorDraws ==
    {<<NIWDraw(c), MNIWDraw(c, D_hid, D_hid + D_in), MNIWDraw(c, D_obs, D_hid + D_in)>> :
        c \in DrawVals}
Trajectories(T) == {MkMat(T, D_hid, LAMBDA t, j : FromInt(c * t)) : c \in {0, 1}}

\* the arguments the model calls blocked_gibbs with
GibbsEmissions ==
    {[nr |-> 2, nc |-> D_obs, v |-> <<[j \in 1..D_obs |-> FromInt(a)],
                                      [j \in 1..D_obs |-> FromInt(b)]>>] :
        <<a, b>> \in {<<0, 2>>, <<1, 5>>}}
GibbsInputs(T) == {None, MkMat(T, InputDim, LAMBDA t, j : FromInt(t))}
UserNIW == NIW([i \in 1..D_hid |-> Zero], One, D_hid + 2, Eye(D_hid))
UserMNIW(nr, nc) == MNIW(Zeros(nr, nc), Eye(nc), nr + 2, Scale(FromInt(3), Eye(nr)))
GibbsPriors(d_in) ==
    {None,
     [initial |-> UserNIW, dynamics |-> UserMNIW(D_hid, D_hid + d_in),
      emission |-> UserMNIW(D_obs, D_hid + d_in)],
     [initial |-> UserNIW, dynamics |-> None,
      emission |-> UserMNIW(D_obs, D_hid + d_in)]}

\* blocked_gibbs has been called and lines 30-34 have run
GibbsInit ==
    /\ pc = "gibbs_called"
    /\ emissions \in GibbsEmissions
    /\ \E inputs_arg \in GibbsInputs(emissions.nr) :
         inputs = default_inputs(inputs_arg, emissions.nr)
    /\ gibbs_args \in [key : {PRNGKey0},
                       sample_size : 1..MaxSampleSize,
                       priors : GibbsPriors(inputs.nc)]
    /\ states = None
    /\ stats = <<>>
    /\ priors = <<>>
    /\ keys = <<>>
    /\ carry = <<>>
    /\ sweep = 0
    /\ samples_of_parameters = <<>>
    /\ log_probs = <<>>
    /\ trace = <<>>
    /\ key_uses = <<>>
    /\ EmIdle
    /\ TreeIdle
    /\ InitIdle

\* lines 36-61 and 169-190: the priors are fixed, the sweep-zero parameters
\* are their modes and the key is split into one key per sweep
GibbsSetup ==
    /\ pc = "gibbs_called"
    /\ \E uniform_B \in AllMats(D_hid, D_in, UniformVals),
          uniform_D \in AllMats(D_obs, D_in, UniformVals) :
         priors' = set_priors(gibbs_args.priors, uniform_B, uniform_D)
    /\ carry' = params_0'
    /\ keys' = split(gibbs_args.key, gibbs_args.sample_size)
    /\ key_uses' = setup_key_uses(gibbs_args.key, gibbs_args.priors)
    /\ pc' = "scanning"
    /\ UNCHANGED <<emissions, inputs, states, stats, gibbs_args, sweep,
                   samples_of_parameters, log_probs, trace>>
    /\ UNCHANGED <<emVars, treeVars, initVars>>

\* one step of lax.scan(one_sample, params_0, keys), line 191
OneSample ==
    /\ pc = "scanning"
    /\ sweep < gibbs_args.sample_size
    /\ \E x \in Trajectories(num_timesteps), draws \in PosteriorDraws :
         LET out == one_sample(carry, keys[sweep + 1], x, draws)
         IN  /\ carry' = out.ret[1]
             /\ samples_of_parameters' = Append(samples_of_parameters, out.ret[2][1])
             /\ log_probs' = Append(log_probs, out.ret[2][2])
             /\ states' = x
             /\ stats' = out.stats
             /\ trace' = Append(trace, out.calls)
             /\ key_uses' = key_uses \o out.uses
    /\ sweep' = sweep + 1
    /\ UNCHANGED <<pc, emissions, inputs, gibbs_args, priors, keys>>
    /\ UNCHANGED <<emVars, treeVars, initVars>>

\* lines 192-194: the scan is over and its stacked outputs are returned
GibbsReturn ==
    /\ pc = "scanning"
    /\ sweep = gibbs_args.sample_size
    /\ pc' = "gibbs_returned"
    /\ UNCHANGED <<emissions, inputs, states, stats>>
    /\ UNCHANGED <<gibbsVars, emVars, treeVars, initVars>>

GibbsNext == GibbsSetup \/ OneSample \/ GibbsReturn

SpecGibbs == GibbsInit /\ [][GibbsNext]_vars


(***************************************************************************)
(* Claims about the sufficient statistics                                  *)
(***************************************************************************)
\* z[t] = [x[t], u[t]] of the sampled trajectory, t 1-based
ZVec(t) == Row(states, t) \o Row(inputs, t)
XVec(t) == Row(states, t)
YVec(t) == Row(emissions, t)

\* the sum over t = lo..hi of the outer products a(t) b(t)^T, an na x nb array
SumOuter(a(_), b(_), lo, hi, na, nb) ==
    MkMat(na, nb,
          LAMBDA i, j :
              RSumSeq([k \in 1..(IF hi >= lo THEN hi - lo + 1 ELSE 0) |->
                           RMul(a(lo + k - 1)[i], b(lo + k - 1)[j])]))

XNext(t) == XVec(t + 1)

\* C4 as stated: the emission and the initial-state statistics both count T
\* and the dynamics statistics count T-1.
C4_AsStated ==
    pc = "stats_done" =>
        /\ stats[3][4] = num_timesteps
        /\ stats[1][3] = num_timesteps
        /\ stats[2][4] = num_timesteps - 1

\* C4 amended: the emission statistics count T, the dynamics statistics count
\* T-1, and the initial-state statistics count 1 whatever T is.
C4_Counts ==
    pc = "stats_done" =>
        /\ stats[3][4] = states.nr
        /\ stats[1][3] = 1
        /\ stats[2][4] = states.nr - 1

C4_Witness == pc = "stats_done" /\ states.nr = 3 /\ stats[2][4] = 2

\* C5: the initial statistics are (x[0], x[0] x[0]^T, 1); the dynamics
\* statistics are the sums over the transitions t = 0..T-2 only of z_t z_t^T,
\* z_t x[t+1]^T and x[t+1] x[t+1]^T; the emission statistics are the sums over
\* all t = 0..T-1 of z_t z_t^T, z_t y[t]^T and y[t] y[t]^T; for T = 1 the
\* dynamics sums are zero arrays with count 0.
C5_Stats ==
    pc = "stats_done" =>
        LET T == states.nr
            Dz == D_hid + D_in
        IN  /\ stats[1] = <<XVec(1), SumOuter(XVec, XVec, 1, 1, D_hid, D_hid), 1>>
            /\ stats[2][1] = SumOuter(ZVec, ZVec, 1, T - 1, Dz, Dz)
            /\ stats[2][2] = SumOuter(ZVec, XNext, 1, T - 1, Dz, D_hid)
            /\ stats[2][3] = SumOuter(XNext, XNext, 1, T - 1, D_hid, D_hid)
            /\ stats[3][1] = SumOuter(ZVec, ZVec, 1, T, Dz, Dz)
            /\ stats[3][2] = SumOuter(ZVec, YVec, 1, T, Dz, D_obs)
            /\ stats[3][3] = SumOuter(YVec, YVec, 1, T, D_obs, D_obs)
            /\ T = 1 => /\ stats[2][1] = Zeros(Dz, Dz)
                        /\ stats[2][2] = Zeros(Dz, D_hid)
                        /\ stats[2][3] = Zeros(D_hid, D_hid)
                        /\ stats[2][4] = 0

\* a trajectory of three steps whose last input and last state are non-zero
\* and whose first state is non-zero: each would change a sum it is kept out of
C5_Witness ==
    /\ pc = "stats_done"
    /\ states.nr = 3
    /\ D_in = 1
    /\ At(inputs, 3, 1) = One
    /\ At(states, 3, 1) = One
    /\ At(states, 1, 2) = One
    /\ At(stats[2][1], 3, 3) # At(stats[3][1], 3, 3)

(***************************************************************************)
(* Claims about the EM step                                                *)
(***************************************************************************)
WVals == {FromInt(-1), Zero, One}

\* every timestep carries weight 1 on one state and 0 on the others
HardAssignment ==
    \A t \in 1..expected_states.nr :
        \E k \in 1..num_states : Row(expected_states, t) = OneHot(k)

\* the timesteps assigned to state k
Assigned(k) == {t \in 1..expected_states.nr : At(expected_states, t, k) = One}

\* the sum over the timesteps of A of f(t)
SumOver(A, f(_)) ==
    RSumSeq([t \in 1..expected_states.nr |-> IF t \in A THEN f(t) ELSE Zero])

\* [x_t, 1]: the covariates with the constant feature appended
Augmented(t) == Row(covariates, t) \o <<One>>

\* the Gram matrix of the augmented covariates of the timesteps of A
GramOf(A) ==
    MkMat(covariate_dim + 1, covariate_dim + 1,
          LAMBDA i, j : SumOver(A, LAMBDA t : RMul(Augmented(t)[i], Augmented(t)[j])))

\* W x_t + b, a 1-D array
Predict(W, b, t) ==
    [i \in 1..emission_dim |->
        RAdd(RSumSeq([j \in 1..covariate_dim |->
                         RMul(At(W, i, j), At(covariates, t, j))]),
             b[i])]

Residual(W, b, t) ==
    [i \in 1..emission_dim |-> RSub(At(emissions, t, i), Predict(W, b, t)[i])]

\* the normal equations of least squares with intercept over the timesteps
\* of A: the residuals sum to zero and are orthogonal to every covariate
NormalEquations(A, W, b) ==
    \A i \in 1..emission_dim :
        /\ SumOver(A, LAMBDA t : Residual(W, b, t)[i]) = Zero
        /\ \A j \in 1..covariate_dim :
               SumOver(A, LAMBDA t : RMul(Residual(W, b, t)[i], At(covariates, t, j)))
                   = Zero

\* the rows of M at the timesteps of A, in order
RECURSIVE PickRows(_, _, _)
PickRows(M, A, t) ==
    IF t > M.nr THEN <<>>
    ELSE (IF t \in A THEN <<M.v[t]>> ELSE <<>>) \o PickRows(M, A, t + 1)

Restrict(M, A) == [nr |-> Cardinality(A), nc |-> M.nc, v |-> PickRows(M, A, 1)]

\* the M-step run on the timesteps of A alone, as a single state
FitAlone(A) ==
    m_step_emissions(
        compute_expected_suff_stats(Restrict(emissions, A),
                                    Ones(Cardinality(A), 1),
                                    Restrict(covariates, A)))

\* C6: under a hard assignment, for every state k whose assigned covariates
\* give an invertible augmented Gram matrix, weights[k] and biases[k] are the
\* least-squares fit with intercept of the timesteps assigned to k (they solve
\* its normal equations), they equal what the same two steps return on those
\* timesteps alone, and data that is exactly y = W x + b on those timesteps
\* gives back W, b and a zero covariance.
C6_LeastSquares ==
    (pc = "m_step_done" /\ HardAssignment) =>
        \A k \in 1..num_states :
            Det(GramOf(Assigned(k))) # Zero =>
                LET W == hmm_params.weights[k]
                    b == hmm_params.biases[k]
                    alone == FitAlone(Assigned(k))
                IN  /\ NormalEquations(Assigned(k), W, b)
                    /\ W = alone.weights[1]
                    /\ b = alone.biases[1]
                    /\ hmm_params.covs[k] = alone.covs[1]
                    /\ \A W0 \in AllMats(emission_dim, covariate_dim, WVals) :
                       \A b0 \in [1..emission_dim -> WVals] :
                           (\A t \in Assigned(k) : Row(emissions, t) = Predict(W0, b0, t))
                               => /\ W = W0
                                  /\ b = b0
                                  /\ hmm_params.covs[k] = Zeros(emission_dim, emission_dim)

\* state 1 holds two timesteps on the line y = 1 - x, state 2 holds a
\* timestep off that line, and state 1's fit is that line
C6_Witness ==
    /\ pc = "m_step_done"
    /\ HardAssignment
    /\ Cardinality(Assigned(1)) = 2
    /\ Cardinality(Assigned(2)) = 1
    /\ Det(GramOf(Assigned(1))) # Zero
    /\ At(hmm_params.weights[1], 1, 1) = FromInt(-1)
    /\ hmm_params.biases[1] = <<One>>
    /\ \E t \in Assigned(2) : Row(emissions, t) # Predict(hmm_params.weights[1],
                                                           hmm_params.biases[1], t)

AllFinite(M) == \A i \in 1..M.nr : \A j \in 1..M.nc : IsFinite(At(M, i, j))

Symmetric(M) ==
    /\ AllFinite(M)
    /\ \A i \in 1..M.nr : \A j \in 1..M.nc : At(M, i, j) = At(M, j, i)

\* the elements of a set of numbers in increasing order
Sorted(S) ==
    CHOOSE f \in [1..Cardinality(S) -> S] :
        \A a, b \in 1..Cardinality(S) : a < b => f[a] < f[b]

\* the principal submatrix of M on the index set S
Principal(M, S) ==
    MkMat(Cardinality(S), Cardinality(S),
          LAMBDA i, j : At(M, Sorted(S)[i], Sorted(S)[j]))

\* positive semi-definite: finite, with every principal minor >= 0
PositiveSemiDefinite(M) ==
    /\ AllFinite(M)
    /\ \A S \in SUBSET (1..M.nr) : RGeqZero(Det(Principal(M, S)))

\* C7: whenever sum_w[k] > 0, covs[k] is symmetric and positive semi-definite.
C7_SymmetricPSD ==
    pc = "m_step_done" =>
        \A k \in 1..num_states :
            suff_stats.sum_w[k][1] > 0 =>
                /\ Symmetric(hmm_params.covs[k])
                /\ PositiveSemiDefinite(hmm_params.covs[k])

(***************************************************************************)
(* Claims about the parameter transformations                              *)
(***************************************************************************)
\* the paths of the leaves of a tree
Leaves(t) == UNION {{<<g, n>> : n \in DOMAIN t[g]} : g \in DOMAIN t}

C9_TrainableOnly ==
    pc = "unconstrained" =>
        /\ Leaves(unc_returned[1])
               = {p \in Leaves(tree_params) : tree_props[p[1]][p[2]].trainable}
        /\ Len(unc_returned) = 2
        /\ unc_returned[2] = tree_params

(***************************************************************************)
(* Claims about initialize                                                 *)
(***************************************************************************)
Returned == "params" \in DOMAIN init_result

\* the defaults of a method for the arguments of the call
DefaultWeights ==
    IF lower(init_args.method) = "kmeans"
    THEN {Tile(Zeros(emission_dim, covariate_dim), num_states)}
    ELSE {Scale3(Rat(1, 100), z) : z \in NormalWeights}

DefaultBiases ==
    IF lower(init_args.method) = "kmeans"
    THEN KMeansCenters(num_states, reshape(init_args.emissions))
    ELSE NormalBiases

DefaultCovariances == {Tile(Eye(emission_dim), num_states)}

\* each emission parameter of the returned params is the caller's array when
\* one was passed and a default of the method otherwise
EachDecidedAlone ==
    Returned =>
        LET e == init_result.params.emissions
        IN  /\ IF init_args.emission_weights # None
               THEN e.weights = init_args.emission_weights
               ELSE e.weights \in DefaultWeights
            /\ IF init_args.emission_biases # None
               THEN e.biases = init_args.emission_biases
               ELSE e.biases \in DefaultBiases
            /\ IF init_args.emission_covariances # None
               THEN e.covs = init_args.emission_covariances
               ELSE e.covs \in DefaultCovariances

AllSupplied ==
    /\ init_args.initial_probs # None
    /\ init_args.transition_matrix # None
    /\ init_args.emission_weights # None
    /\ init_args.emission_biases # None
    /\ init_args.emission_covariances # None

ModesOfPriors ==
    LET init == NIWMode(priors.initial)
        dyn  == MNIWMode(priors.dynamics)
        ems  == MNIWMode(priors.emission)
    IN  LGSSMParams(init[2], init[1],
                    Cols(dyn[2], 1, D_hid), Cols(dyn[2], D_hid + 1, dyn[2].nc), dyn[1],
                    Cols(ems[2], 1, D_hid), Cols(ems[2], D_hid + 1, ems[2].nc), ems[1])

\* the parameter sets drawn in sweeps 0..n-1, in order
Drawn(n) == [i \in 1..n |-> trace[i].drawn]

\* C1 as stated: the sample recorded at output index i is the parameter set
\* drawn from the posteriors during sweep i.
C1_AsStated ==
    \A i \in 1..Len(samples_of_parameters) :
        samples_of_parameters[i] = trace[i].drawn

\* C1 amended: the sample recorded at output index i is the parameter set that
\* entered sweep i.  Index 0 holds the modes of the priors, index i+1 holds the
\* draw of sweep i, and the draw of the last sweep is recorded nowhere in the
\* output: it is only the final carry of the scan.
C1_RecordsEntering ==
    /\ Len(samples_of_parameters) = sweep
    /\ Len(trace) = sweep
    /\ \A i \in 1..sweep : samples_of_parameters[i] = trace[i].entered
    /\ sweep >= 1 =>
         /\ samples_of_parameters = <<ModesOfPriors>> \o Drawn(sweep - 1)
         /\ carry = trace[sweep].drawn
    /\ pc = "gibbs_returned" => sweep = gibbs_args.sample_size

\* C1 witness: the call has returned at least two samples; the second one is
\* the draw of sweep 0 and differs from the draw of its own sweep.
C1_Witness ==
    /\ pc = "gibbs_returned"
    /\ Len(samples_of_parameters) >= 2
    /\ samples_of_parameters[2] = trace[1].drawn
    /\ samples_of_parameters[2] # trace[2].drawn
    /\ samples_of_parameters[1] # trace[1].drawn

\* C2: the parameters entering sweep 0 are the modes of the three priors, the
\* parameters entering sweep i+1 are the ones drawn in sweep i, and the prior
\* density and the trajectory sampling of a sweep use the parameters that
\* entered that sweep.
C2_Threading ==
    /\ (pc = "scanning" /\ sweep = 0) => carry = ModesOfPriors
    /\ \A i \in 1..Len(trace) :
         /\ i = 1 => trace[i].entered = ModesOfPriors
         /\ i > 1 => trace[i].entered = trace[i - 1].drawn
         /\ trace[i].sampled_under = trace[i].entered
         /\ trace[i].l_prior_of = trace[i].entered
    /\ Len(trace) >= 1 => carry = trace[Len(trace)].drawn

\* C2 witness: default priors were built, two sweeps have run, and the second
\* one was entered with the draw of the first, which is not the prior modes.
C2_Witness ==
    /\ gibbs_args.priors = None
    /\ Len(trace) >= 2
    /\ trace[2].entered = trace[1].drawn
    /\ trace[2].entered # trace[1].entered

\* the prior log-density of a parameter set: initial, dynamics and emission
\* prior log-densities summed
PriorLogDensity(params) ==
    Plus(Plus(LogProb(priors.initial,
                      <<params.initial_covariance, params.initial_mean>>),
              LogProb(priors.dynamics,
                      <<params.dynamics_covariance,
                        HStack(params.dynamics_matrix, params.dynamics_input_weights)>>)),
         LogProb(priors.emission,
                 <<params.emission_covariance,
                   HStack(params.emission_matrix, params.emission_input_weights)>>))

\* C3: at every output index i, log_probs[i] is the prior log-density of
\* samples_of_parameters[i] plus the log-likelihood returned by the trajectory
\* sampling of sweep i, which was run under samples_of_parameters[i].
C3_Associated ==
    /\ Len(log_probs) = Len(samples_of_parameters)
    /\ \A i \in 1..Len(log_probs) :
         /\ log_probs[i] = Plus(PriorLogDensity(samples_of_parameters[i]), trace[i].ll)
         /\ trace[i].sampled_under = samples_of_parameters[i]
         /\ trace[i].ll = MarginalLogLik(samples_of_parameters[i])

\* C3 witness: with inputs present, the call has returned two different
\* log-probabilities for two different samples.
C3_Witness ==
    /\ pc = "gibbs_returned"
    /\ D_in > 0
    /\ Len(log_probs) >= 2
    /\ log_probs[1] # log_probs[2]
    /\ samples_of_parameters[1] # samples_of_parameters[2]

(***************************************************************************)
(* Claims about the PRNG keys of blocked_gibbs                             *)
(***************************************************************************)
\* C11: within one call of blocked_gibbs every PRNG key is consumed at most
\* once: no key is handed to two draws, to two splits, or to a draw and a
\* split.
C11_KeysUsedOnce ==
    \A i, j \in 1..Len(key_uses) :
        i # j => key_uses[i].key # key_uses[j].key

\* the part of C11 about the keys derived inside the scan: the sweep keys are
\* pairwise distinct, and within and across sweeps the keys handed to the
\* trajectory sampling, to the split of lgssm_params_sample and to the three
\* posterior draws are pairwise distinct
C11_SweepKeysUsedOnce ==
    \A i, j \in 1..Len(key_uses) :
        (i # j /\ key_uses[i].key # gibbs_args.key) =>
            key_uses[i].key # key_uses[j].key

====
